---- MODULE Spec2Model ----
(***************************************************************************)
(* A model of the command hook of anaisbetts/commands: useCommand and      *)
(* useAsyncCallbackDedup (command.ts), on top of useMounted and the Result *)
(* value.  One component instance with one command is modelled.           *)
(*                                                                         *)
(* Scheduling follows the JavaScript event loop: an event handler (a call  *)
(* of invoke or reset, a render with its effects, the unmount) runs to     *)
(* completion, and the continuations a settled promise has queued are      *)
(* drained before the next event handler runs.  The wrapped operation is   *)
(* the caller's code: its synchronous portion may itself call invoke.      *)
(***************************************************************************)
EXTENDS Naturals, FiniteSets, Sequences, TLC

\* ---------------------------------------------------------------- bounds
\* The wrapped operation is executed at most MaxCalls times.
MaxCalls == 3
\* The dependency list changes at most MaxEpochs times.
MaxEpochs == 2

\* How many times the observable of fromCancellablePromise is subscribed to.
MaxSubscribers == 2

\* ---------------------------------------------------------------- values
\* The value execution i of the wrapped operation resolves to, and the
\* failure it rejects with: each execution has its own, so that a result or
\* a failure names the execution it came from.
Value(i) == <<"value", i>>

Failure(i) == <<"failure", i>>

\* JavaScript's null, the payload of the initial Ok.
Null == <<"null", 0>>

NoValue == <<"none", 0>>

\* The values the dependency list takes: two are enough for a render to
\* change it or to leave it as it was.
DepValues == {"a", "b"}

\* The empty in-flight slot (cur.current === undefined).
None == 0

CallIds == 1 .. MaxCalls

\* ---------------------------------------------------------------- Result
ok(val) == [tag |-> "ok", value |-> val]

err(e) == [tag |-> "err", value |-> e]

pending == [tag |-> "pending", value |-> NoValue]

\* What execution i of the wrapped operation can settle with.
Outcomes(i) == {ok(Value(i)), err(Failure(i))}

NoOutcome == [tag |-> "none", value |-> NoValue]

\* A promise returned by invoke: still pending, resolved or rejected.
PromisePending == [st |-> "pending", value |-> NoValue]

PromiseResolved(v) == [st |-> "resolved", value |-> v]

PromiseRejected(e) == [st |-> "rejected", value |-> e]

\* ----------------------------------------------------------------- state
VARIABLES
  phase,       \* "rendered" (first render done, effects not yet run), "mounted", "unmounted"
  mounted,     \* mounted.current of useMounted: useCommand, useAsyncCallbackDedup
               \* and useObservable each hold one, all set by the same commit
  current,     \* the state cell of useCommand: the currentResult
  cur,         \* cur.current of useAsyncCallbackDedup: the in-flight slot
  inv,         \* the executions of the wrapped operation, by call id
  nCalls,      \* how many times the wrapped operation was called
  deps,        \* the dependency list of the last render
  cbId,        \* the identity of invokeCommand (useCallback over deps)
  runOnStart,  \* the runOnStart argument
  autoRuns,    \* how many times the usePromise effect called invokeCommand
  last         \* what invoke returned ("null" or "promise") when the last handler
               \* was a call of invoke, "none" after any other handler

\* The state of useObservable (phase, mounted and deps are shared with it).
VARIABLES
  ret,           \* the state cell of useObservable
  sub,           \* the activations of its effect, by epoch
  epoch,         \* the epoch of the latest activation
  factoryCalls,  \* how many times the effect called the factory (block)
  ev             \* whether the last step was a dropped push or a plain render

\* The state of fromCancellablePromise, and a Result with the last method
\* called on it.
VARIABLES
  fcp,           \* the subscriptions to the observable of fromCancellablePromise
  result,        \* the Result the methods are called on
  call           \* the last method call on it: its arguments and what it returned

vars == <<phase, mounted, current, cur, inv, nCalls, deps, cbId, runOnStart, autoRuns, last,
          ret, sub, epoch, factoryCalls, ev, fcp, result, call>>

libVars == <<fcp, result, call>>

cmdVars == <<current, cur, inv, nCalls, cbId, runOnStart, autoRuns, last>>

obsVars == <<ret, sub, epoch, factoryCalls, ev>>

\* ----------------------------------------- values of fromCancellablePromise
Subscribers == 1 .. MaxSubscribers

\* A subscription that was not made yet: `done = { cancelled: false }`, an open
\* subscriber that has received nothing.
IdleBridge ==
  [pc |-> "idle",            \* "idle", "running", "settled", "finished", "threw"
   cancelled |-> FALSE,      \* done.cancelled
   closed |-> FALSE,         \* the subscriber subj is stopped or unsubscribed
   unsubscribed |-> FALSE,   \* the consumer called unsubscribe
   unsubAtSettle |-> FALSE,  \* it had done so when the operation settled
   outcome |-> NoOutcome,    \* what the operation settled with
   lastRead |-> "none",      \* what the operation read last from the flag
   out |-> <<>>]             \* what the subscriber passed to the consumer

\* ------------------------------------------------------- values of Result
\* JavaScript values, by type: the number 0 and 1, the text "" and "x" (by
\* length), false and true.
Undefined == <<"undefined", 0>>

JsNull == <<"null", 0>>

JsValues ==
  {Undefined, JsNull, <<"number", 0>>, <<"number", 1>>, <<"string", 0>>, <<"string", 1>>,
   <<"boolean", 0>>, <<"boolean", 1>>}

\* A function passed to a method, by what it computes: name says which, a and
\* b are the values it closes over.
Fn(name, a, b) == [f |-> name, a |-> a, b |-> b]

\* A handler that was not supplied.
Absent == Fn("absent", Undefined, FALSE)

\* The `ops` argument of mapOrElse with no handler supplied.
NoOps == [err |-> Absent, pending |-> Absent, ok |-> Absent, null |-> Absent]

\* A method call: its name, its arguments (those it does not take left at
\* their defaults), and what it returned or threw.
MethodCall(method, fn, ops, val, flag, returned) ==
  [method |-> method, fn |-> fn, ops |-> ops, val |-> val, flag |-> flag, ret |-> returned]

\* No method was called yet.
NoCall ==
  MethodCall("none", Absent, NoOps, Undefined, FALSE, [kind |-> "none", value |-> Undefined])

\* ------------------------------------------------- values of useObservable
\* The items a stream emits, the error it fails with, the exception a factory
\* throws, and the error of a stream that completed empty.
Item(i) == <<"item", i>>

Items == {Item(1), Item(2)}

NoItem == <<"none", 0>>

StreamFailure == <<"failure", 0>>

Thrown == <<"thrown", 0>>

EmptyError == <<"Observable must have at least one element", 0>>

Epochs == 0 .. MaxEpochs

\* The cell of useObservable after the first render: useState(Result.pending()).
InitialCell == pending

\* An activation that has not run: the locals of the effect as it declares
\* them, and the subscription d = Subscription.EMPTY.
IdleSub ==
  [st |-> "idle",                    \* "idle", "subscribed", "threw", "skipped"
   isCurrentSubscription |-> FALSE,
   set |-> FALSE,
   done |-> FALSE,
   closed |-> FALSE,                 \* the rxjs subscriber is stopped or unsubscribed
   check |-> "none",                 \* the deferred check: "none", "queued", "ran"
   retAtRender |-> pending,          \* the `ret` the closures of this activation captured
   lastItem |-> NoItem,              \* the last item the stream delivered
   term |-> "none",                  \* how the stream ended: "none", "error", "complete"
   unsubs |-> 0]                     \* how many times d.unsubscribe() ran on the subscription

\* What the last step was, where the state would not tell: a push that the
\* stopped or unsubscribed subscriber dropped, or a render that left the
\* dependency list unchanged.
NoEvent == "none"

Dropped == "dropped"

Rendered == "render"


\* --------------------------------------------------- fromCancellablePromise
\* subj.next(x): the subscriber passes the item on unless it is closed.
SubjNext(d, x) ==
  IF d.closed THEN d ELSE [d EXCEPT !.out = Append(@, <<"next", x>>)]

\* Mutant: no teardown is registered.
TeardownNothing(d) == d

\* The teardown `subj.add(() => (done.cancelled = true))`.
Teardown(d) == [d EXCEPT !.cancelled = TRUE]

\* The subscriber closes, on completion, failure or unsubscription, and runs
\* its teardown.
Close(d) == IF d.closed THEN d ELSE Teardown([d EXCEPT !.closed = TRUE])

\* subj.complete().
SubjComplete(d) ==
  IF d.closed THEN d ELSE Close([d EXCEPT !.out = Append(@, <<"complete", NoValue>>)])

\* subj.error(e).
SubjError(d, e) ==
  IF d.closed THEN d ELSE Close([d EXCEPT !.out = Append(@, <<"error", e>>)])

\* Mutant: the value is emitted and the stream left open.
OnFulfilledNoComplete(d, x) ==
  IF ~d.cancelled THEN SubjNext([d EXCEPT !.cancelled = TRUE], x) ELSE d

\* The reaction to the operation's success:
\* `if (!done.cancelled) { done.cancelled = true; subj.next(x); subj.complete() }`.
OnFulfilled(d, x) ==
  IF ~d.cancelled THEN SubjComplete(SubjNext([d EXCEPT !.cancelled = TRUE], x)) ELSE d

\* Mutant: the failure is dropped.
OnRejectedSilent(d, e) ==
  IF ~d.cancelled THEN [d EXCEPT !.cancelled = TRUE] ELSE d

\* The reaction to the operation's failure, and the catch around the call of
\* the operation: `if (!done.cancelled) { done.cancelled = true; subj.error(e) }`.
OnRejected(d, e) ==
  IF ~d.cancelled THEN SubjError([d EXCEPT !.cancelled = TRUE], e) ELSE d

\* Mutant: unsubscribing leaves the subscriber open.
UnsubscribeNothing(d) == [d EXCEPT !.unsubscribed = TRUE]

\* The consumer unsubscribes.
Unsubscribe(d) == Close([d EXCEPT !.unsubscribed = TRUE])

\* What the operation reads from isCancelled.cancelled.
ReadFlag(d) == IF d.cancelled THEN "true" ELSE "false"

\* An execution that has not started.  bridge is the subscription of
\* usePromise whose block called invoke, for an execution the effect started.
Unused ==
  [pc |-> "unused", origin |-> "none", out |-> NoOutcome, ret |-> PromisePending,
   isCurrentInvocation |-> FALSE, wasReset |-> FALSE, bridge |-> IdleBridge]

\* The part of the state a call of invoke reads and writes.
HookState ==
  [mounted |-> mounted, current |-> current, cur |-> cur, inv |-> inv,
   nCalls |-> nCalls, ret |-> "none"]

\* ------------------------------------------------------------ useMounted
\* useMounted: the ref starts true, the effect sets it true on mount and its
\* cleanup sets it false on unmount.
useMountedInitial == TRUE

useMountedEffect == TRUE

\* Mutant: the cleanup leaves the flag set.
useMountedCleanupKeeps == TRUE

useMountedCleanup == FALSE

\* ------------------------------------------------- useAsyncCallbackDedup
\* `if (cur.current) return null`: an occupied slot makes the call a no-op.
SlotBusy(c) == c # None

\* Mutant: the callback does not look at the mounted flag.
NotMountedNever(m) == FALSE

\* `if (!mounted.current) return null`.
NotMounted(m) == ~m

\* Mutant: the slot is never cleared.
ClearSlotNever(c, promise) == c

\* Mutant: the resuming callback empties the slot whatever it holds.
ClearSlotAlways(c, promise) == None

\* `if (cur.current === promise) cur.current = undefined`, on either outcome.
ClearSlot(c, promise) == IF c = promise THEN None ELSE c

\* Mutant: the failure is swallowed instead of thrown again.
CallbackSettleSwallow(o) ==
  IF o.tag = "ok" THEN PromiseResolved(o.value) ELSE PromiseResolved(Null)

\* What the promise of a call of the callback settles with once the wrapped
\* block has settled with outcome o: `return result` or `throw error`.
CallbackSettle(o) ==
  IF o.tag = "ok" THEN PromiseResolved(o.value) ELSE PromiseRejected(o.value)

\* -------------------------------------------------------------- useCommand
\* useState(Result.ok(null)).
InitialResult == ok(Null)

\* Mutant: reset writes Pending.
ResetResultPending(m, c) == IF m THEN pending ELSE c

\* reset: `if (mounted.current) setCurrent(Result.ok(null))`.
ResetResult(m, c) == IF m THEN ok(Null) ELSE c

\* The start of the async block of useCommand:
\* `if (mounted.current) setCurrent(Result.pending())`.
PendingWrite(m, c) == IF m THEN pending ELSE c

\* Mutant: the catch branch writes Ok as the try branch does.
SettleWriteAlwaysOk(isCurrent, m, c, o) == IF isCurrent /\ m THEN ok(o.value) ELSE c

\* Mutant: the continuation writes the result without looking at mounted.
SettleWriteUnmounted(isCurrent, m, c, o) == IF isCurrent THEN o ELSE c

\* Mutant: the continuation writes nothing.
SettleWriteNothing(isCurrent, m, c, o) == c

\* Its continuation after `await block()`:
\* `if (isCurrentInvocation && mounted.current) setCurrent(Result.ok(ret))`, or
\* setCurrent(Result.err(e)) in the catch.
SettleWrite(isCurrent, m, c, o) == IF isCurrent /\ m THEN o ELSE c

\* Mutant: a new identity on every render.
UseCallbackIdAlwaysNew(id, oldDeps, newDeps) == id + 1

\* What the async block of useCommand settles with when the wrapped operation
\* settled with o: `return ret`, or `throw e` from the catch.
WrapperSettle(o) == o

\* useCallback(..., deps): a new identity exactly when the dependency list differs.
UseCallbackId(id, oldDeps, newDeps) == IF newDeps # oldDeps THEN id + 1 ELSE id

\* The subscription that usePromise makes to fromCancellablePromise(block)
\* before block calls invoke: open, its operation running.
AutoBridge(origin) ==
  IF origin = "auto" THEN [IdleBridge EXCEPT !.pc = "running"] ELSE IdleBridge

\* Mutant: the block of usePromise calls invoke without awaiting it.
AutoBlockSettleDetached(p) == ok(NoValue)

\* What the block of usePromise, `async () => { if (runOnStart) { await
\* invokeCommand() } }`, settles with once the promise p of its call of invoke
\* has settled: the failure of p, or nothing.
AutoBlockSettle(p) == IF p.st = "rejected" THEN err(p.value) ELSE ok(NoValue)

\* The reaction that fromCancellablePromise registered with p.then runs on
\* the outcome o of the block.
BridgeReaction(d, o) ==
  [(IF o.tag = "ok" THEN OnFulfilled(d, o.value) ELSE OnRejected(d, o.value))
     EXCEPT !.pc = "finished", !.outcome = o]

\* What the settlement of the promise p of a call of invoke does to the
\* subscription of the block that awaits it.
BridgeSettle(origin, d, p) ==
  IF origin = "auto" THEN BridgeReaction(d, AutoBlockSettle(p)) ELSE d

\* The cleanup of the effect of usePromise unsubscribes from the observable;
\* on a subscription that is closed already this does nothing.
TeardownBridges(v) ==
  [i \in CallIds |->
     IF v[i].origin = "auto" /\ ~v[i].bridge.closed
     THEN [v[i] EXCEPT !.bridge = Unsubscribe(@)]
     ELSE v[i]]

RECURSIVE cb(_, _, _)

\* The synchronous portion of the async block of useCommand, run by `block()`
\* in the callback: it writes Pending and calls the wrapped operation, whose
\* own synchronous portion runs before block() returns.  With reenter, that
\* portion calls invoke again.
blockStart(s, origin, reenter) ==
  LET i == s.nCalls + 1
      s1 == [s EXCEPT !.current = PendingWrite(s.mounted, @)]
      s2 == [s1 EXCEPT !.nCalls = i,
                       !.inv[i] = [Unused EXCEPT !.pc = "running",
                                                 !.origin = origin,
                                                 !.isCurrentInvocation = TRUE,
                                                 !.bridge = AutoBridge(origin)]]
  IN IF reenter THEN cb(s2, "reentrant", FALSE) ELSE s2

\* The callback of useAsyncCallbackDedup up to its first await.
cb(s, origin, reenter) ==
  IF SlotBusy(s.cur) THEN [s EXCEPT !.ret = "null"]
  ELSE IF NotMounted(s.mounted) THEN [s EXCEPT !.ret = "null"]
  ELSE LET promise == s.nCalls + 1
           s3 == blockStart(s, origin, reenter)
       IN [s3 EXCEPT !.cur = promise, !.ret = "promise"]

\* Mutant: the effect calls invoke whatever runOnStart is.
RunsOnStartAlways(s) == s.mounted

\* Whether the effect of usePromise(async () => { if (runOnStart) await
\* invokeCommand() }, [invokeCommand]) calls invoke: useObservable subscribes,
\* and so runs the block, only on a mounted component.
RunsOnStart(s) == s.mounted /\ runOnStart

\* That effect.
AutoRun(s, reenter) == IF RunsOnStart(s) THEN cb(s, "auto", reenter) ELSE s

\* How many calls of invoke the effect makes.
AutoRunCount(s) == IF RunsOnStart(s) THEN 1 ELSE 0

\* A continuation of a settled promise is queued: the event loop runs it
\* before any other event handler.
MicroPending == \E i \in CallIds : inv[i].pc = "wrapped"

\* ---------------------------------------------------------------- actions
Init ==
  /\ phase = "rendered"
  /\ mounted = useMountedInitial
  /\ current = InitialResult
  /\ cur = None
  /\ inv = [i \in CallIds |-> Unused]
  /\ nCalls = 0
  /\ deps = "a"
  /\ cbId = 0
  /\ runOnStart \in BOOLEAN
  /\ autoRuns = 0
  /\ last = "none"
  /\ ret = InitialCell
  /\ sub = [k \in Epochs |-> IdleSub]
  /\ epoch = 0
  /\ factoryCalls = 0
  /\ ev = NoEvent
  /\ fcp = [i \in Subscribers |-> IdleBridge]
  /\ result = pending
  /\ call = NoCall

\* The effects of the first render run.
Mount ==
  /\ phase = "rendered"
  /\ \E reenter \in BOOLEAN :
       LET s0 == [HookState EXCEPT !.mounted = useMountedEffect]
           s == AutoRun(s0, reenter)
       IN /\ s.nCalls <= MaxCalls
          /\ phase' = "mounted"
          /\ mounted' = s.mounted
          /\ current' = s.current
          /\ cur' = s.cur
          /\ inv' = s.inv
          /\ nCalls' = s.nCalls
          /\ autoRuns' = autoRuns + AutoRunCount(s0)
          /\ last' = "none"
  /\ UNCHANGED <<deps, cbId, runOnStart>>
  /\ UNCHANGED obsVars
  /\ UNCHANGED libVars

\* invoke is called from an event handler (icPreventDefault -> invokeCommand).
Invoke ==
  /\ phase \in {"mounted", "unmounted"}
  /\ ~MicroPending
  /\ \E reenter \in BOOLEAN :
       LET s == cb(HookState, "manual", reenter)
       IN /\ s.nCalls <= MaxCalls
          /\ current' = s.current
          /\ cur' = s.cur
          /\ inv' = s.inv
          /\ nCalls' = s.nCalls
          /\ last' = s.ret
  /\ UNCHANGED <<phase, mounted, deps, cbId, runOnStart, autoRuns>>
  /\ UNCHANGED obsVars
  /\ UNCHANGED libVars

\* Mutant: reset fences out the invocations in flight.
ResetFences ==
  /\ phase \in {"mounted", "unmounted"}
  /\ ~MicroPending
  /\ current' = ResetResult(mounted, current)
  /\ inv' = [i \in CallIds |->
               IF inv[i].pc = "running"
               THEN [inv[i] EXCEPT !.wasReset = TRUE, !.isCurrentInvocation = FALSE]
               ELSE inv[i]]
  /\ last' = "none"
  /\ UNCHANGED <<phase, mounted, cur, nCalls, deps, cbId, runOnStart, autoRuns>>
  /\ UNCHANGED obsVars
  /\ UNCHANGED libVars

\* reset is called from an event handler.
Reset ==
  /\ phase \in {"mounted", "unmounted"}
  /\ ~MicroPending
  /\ current' = ResetResult(mounted, current)
  /\ inv' = [i \in CallIds |->
               IF inv[i].pc = "running" THEN [inv[i] EXCEPT !.wasReset = TRUE] ELSE inv[i]]
  /\ last' = "none"
  /\ UNCHANGED <<phase, mounted, cur, nCalls, deps, cbId, runOnStart, autoRuns>>
  /\ UNCHANGED obsVars
  /\ UNCHANGED libVars

\* The component renders again with dependency list d, and the effects whose
\* dependencies changed run: the cleanup of usePromise, then its effect.
Rerender ==
  /\ phase = "mounted"
  /\ ~MicroPending
  /\ \E d \in DepValues, reenter \in BOOLEAN :
       LET id == UseCallbackId(cbId, deps, d)
           s == IF id # cbId
                THEN AutoRun([HookState EXCEPT !.inv = TeardownBridges(@)], reenter)
                ELSE HookState
       IN /\ id <= MaxEpochs
          /\ s.nCalls <= MaxCalls
          /\ deps' = d
          /\ cbId' = id
          /\ current' = s.current
          /\ cur' = s.cur
          /\ inv' = s.inv
          /\ nCalls' = s.nCalls
          /\ autoRuns' = IF id # cbId THEN autoRuns + AutoRunCount(HookState) ELSE autoRuns
          /\ last' = "none"
  /\ UNCHANGED <<phase, mounted, runOnStart>>
  /\ UNCHANGED obsVars
  /\ UNCHANGED libVars

\* The component unmounts: the cleanups of useMounted and of usePromise run.
Unmount ==
  /\ phase = "mounted"
  /\ ~MicroPending
  /\ phase' = "unmounted"
  /\ mounted' = useMountedCleanup
  /\ inv' = TeardownBridges(inv)
  /\ last' = "none"
  /\ UNCHANGED <<current, cur, nCalls, deps, cbId, runOnStart, autoRuns>>
  /\ UNCHANGED obsVars
  /\ UNCHANGED libVars

\* The wrapped operation of execution i settles with outcome o, and the async
\* block of useCommand resumes after its await.
Settle ==
  /\ ~MicroPending
  /\ \E i \in CallIds :
     \E o \in Outcomes(i) :
       /\ inv[i].pc = "running"
       /\ current' = SettleWrite(inv[i].isCurrentInvocation, mounted, current, o)
       /\ inv' = [inv EXCEPT ![i].pc = "wrapped", ![i].out = WrapperSettle(o),
                             ![i].isCurrentInvocation = FALSE]
  /\ last' = "none"
  /\ UNCHANGED <<phase, mounted, cur, nCalls, deps, cbId, runOnStart, autoRuns>>
  /\ UNCHANGED obsVars
  /\ UNCHANGED libVars

\* The callback of useAsyncCallbackDedup resumes after `await promise`, its
\* promise settles, and so does the block of usePromise that awaits it.
Cleanup ==
  /\ \E i \in CallIds :
       /\ inv[i].pc = "wrapped"
       /\ cur' = ClearSlot(cur, i)
       /\ inv' = [inv EXCEPT ![i].pc = "done",
                             ![i].ret = CallbackSettle(inv[i].out),
                             ![i].bridge = BridgeSettle(inv[i].origin, @,
                                                        CallbackSettle(inv[i].out))]
  /\ last' = "none"
  /\ UNCHANGED <<phase, mounted, current, nCalls, deps, cbId, runOnStart, autoRuns>>
  /\ UNCHANGED obsVars
  /\ UNCHANGED libVars

Next ==
  \/ Mount
  \/ Invoke
  \/ Reset
  \/ Rerender
  \/ Unmount
  \/ Settle
  \/ Cleanup

Spec == Init /\ [][Next]_vars

\* With the event loop's guarantee that queued continuations run.
FairSpec == Spec /\ WF_vars(Cleanup)

TypeOK ==
  /\ phase \in {"rendered", "mounted", "unmounted"}
  /\ mounted \in BOOLEAN
  /\ cur \in {None} \cup CallIds
  /\ nCalls \in 0 .. MaxCalls
  /\ \A i \in CallIds : (i <= nCalls) <=> (inv[i].pc # "unused")

\* ----------------------------------------------------------- vocabulary
\* The executions of the wrapped operation that have started and not settled.
InFlight == {i \in CallIds : inv[i].pc = "running"}

\* The executions whose callback has not yet resumed after the await.
Unfinished == {i \in CallIds : inv[i].pc \in {"running", "wrapped"}}

\* ----------------------------------------------------------------- claims

\* C1: for one command, at most one execution of the wrapped operation is in
\* flight at any time, whatever calls of invoke, completions, failures,
\* resets and dependency changes occur.
C1_AtMostOneInFlight == Cardinality(InFlight) <= 1

\* C2: a call of invoke made while a prior invocation is still in flight does
\* not call the wrapped operation again, resolves to null at once and leaves
\* currentResult unchanged.
C2_InvokeWhileInFlightIsNoop ==
  [][(Invoke /\ InFlight # {}) =>
       (nCalls' = nCalls /\ last' = "null" /\ current' = current)]_vars

\* C3: once the in-flight operation has settled, with a value or a failure,
\* the slot is cleared: the slot never holds a finished invocation, the
\* callback of the invocation the slot holds clears it, and a call of invoke
\* on a mounted command with an empty slot starts the wrapped operation.
C3_SlotClearedAfterSettle ==
  /\ [](cur # None => cur \in Unfinished)
  /\ [][\A i \in CallIds :
          (inv[i].pc = "wrapped" /\ inv'[i].pc = "done" /\ cur = i) => cur' = None]_vars
  /\ [][(Invoke /\ mounted /\ cur = None) => (nCalls' > nCalls /\ last' = "promise")]_vars

\* C3 witness: the first invocation failed, and the next call of invoke
\* started the operation again.
C3_Witness ==
  /\ inv[1].pc = "done"
  /\ inv[1].out.tag = "err"
  /\ nCalls = 2
  /\ inv[2].origin = "manual"
  /\ cur = 2
  /\ last = "promise"

\* Execution i settles in this step.
Settles(i) == inv[i].pc = "running" /\ inv'[i].pc = "wrapped"

\* C4: a call of invoke on a mounted command with nothing in flight starts
\* the operation and writes Pending; when the operation settles on the still
\* mounted command, currentResult becomes Ok(v) for a value v and Error(e) for
\* a failure e; the invocation writes nothing else.
C4_PendingThenOutcome ==
  /\ [][(Invoke /\ mounted /\ InFlight = {}) =>
          (nCalls' > nCalls /\ current' = pending)]_vars
  /\ [][\A i \in CallIds :
          (Settles(i) /\ mounted) =>
            /\ inv'[i].out \in {ok(Value(i)), err(Failure(i))}
            /\ inv'[i].out.tag = "ok" => current' = ok(inv'[i].out.value)
            /\ inv'[i].out.tag = "err" => current' = err(inv'[i].out.value)]_vars
  /\ [][Cleanup => current' = current]_vars

\* C4 witness: a manual invocation failed and its failure is the result.
C4_Witness ==
  /\ mounted
  /\ inv[1].origin = "manual"
  /\ inv[1].pc = "wrapped"
  /\ current = err(Failure(1))

\* C5: currentResult is initially Ok(null), and with runOnStart false every
\* execution of the wrapped operation is started by a call of invoke.
C5_InitialOkNull ==
  /\ [](phase = "rendered" => (current = ok(Null) /\ nCalls = 0))
  /\ []((~runOnStart /\ nCalls = 0) => current = ok(Null))
  /\ [][(~runOnStart /\ nCalls' # nCalls) => Invoke]_vars

\* C5 witness: mounted and rendered again with new dependencies, runOnStart
\* false, and the operation has not run.
C5_Witness ==
  /\ ~runOnStart
  /\ phase = "mounted"
  /\ cbId = 1
  /\ nCalls = 0
  /\ current = ok(Null)

\* C6: a failure of the wrapped operation is recorded as Error(failure) in
\* currentResult (on a mounted command) and the promise that invoke returned
\* rejects with the same failure.
C6_FailureRecordedAndRethrown ==
  /\ [][\A i \in CallIds :
          (Settles(i) /\ mounted /\ inv'[i].out.tag = "err") =>
            current' = err(Failure(i))]_vars
  /\ [](\A i \in CallIds :
          (inv[i].pc = "done" /\ inv[i].out.tag = "err") =>
            inv[i].ret = PromiseRejected(Failure(i)))

\* C6 witness: the promise of the first call rejected and the failure is the
\* result.
C6_Witness ==
  /\ inv[1].pc = "done"
  /\ inv[1].ret = PromiseRejected(Failure(1))
  /\ current = err(Failure(1))

C8_ResetDoesNotCancel ==
  /\ [][(Reset /\ InFlight # {}) =>
          (cur' = cur /\ \A i \in CallIds : inv'[i].pc = inv[i].pc)]_vars
  /\ [][\A i \in CallIds :
          (Settles(i) /\ mounted /\ inv[i].wasReset) =>
            (current' = inv'[i].out /\ current' # ok(Null))]_vars

\* C8 witness: the invocation was reset in flight and its value is the result.
C8_Witness ==
  /\ mounted
  /\ inv[1].wasReset
  /\ inv[1].pc = "done"
  /\ current = ok(Value(1))

\* C9: with runOnStart, the effect calls invoke once on the first activation
\* and once more for each change of the dependency list; a render that leaves
\* the dependency list unchanged calls nothing.
C9_AutoRunPerDependencyChange ==
  /\ [][Mount => autoRuns' = (IF runOnStart THEN 1 ELSE 0)]_vars
  /\ [][(runOnStart /\ deps' # deps) => autoRuns' = autoRuns + 1]_vars
  /\ [][autoRuns' # autoRuns => (Mount \/ deps' # deps)]_vars
  /\ [][(Rerender /\ deps' = deps) => (cbId' = cbId /\ nCalls' = nCalls)]_vars

\* C9 witness: the dependency list changed twice and the effect called invoke
\* three times.
C9_Witness ==
  /\ runOnStart
  /\ cbId = 2
  /\ autoRuns = 3

\* C10: on an unmounted component a call of the dedup invoker does not start
\* the wrapped operation, returns null and leaves the slot untouched.
C10_UnmountedInvokeIsNoop ==
  [][(Invoke /\ ~mounted) =>
       (nCalls' = nCalls /\ last' = "null" /\ cur' = cur /\ inv' = inv)]_vars

\* C10 witness: invoke returned null on the unmounted component although the
\* slot was empty.
C10_Witness ==
  /\ ~mounted
  /\ cur = None
  /\ last = "null"

\* C11: once the component is unmounted no step changes currentResult: not the
\* completion or the failure of an invocation that was in flight, not reset,
\* not a call of invoke.
C11_UnmountedNeverWrites ==
  [][~mounted => current' = current]_vars

\* C11 witness: the only invocation settled after the unmount, and the cell
\* still shows the Pending written when it started.
C11_Witness ==
  /\ ~mounted
  /\ nCalls = 1
  /\ inv[1].pc = "done"
  /\ current = pending

\* ------------------------------------------------------------ useObservable
\* The hook's state as the operators below take and return it.
ObsState == [mounted |-> mounted, ret |-> ret, sub |-> sub, factoryCalls |-> factoryCalls]

\* Whether the handlers of activation k pass their guard
\* `if (!isCurrentSubscription || !mounted.current) return`.
Live(sb, m) == sb.isCurrentSubscription /\ m

\* Mutant: only the first item is written.
NextWriteOnce(live, c, x) == IF live /\ c.tag = "pending" THEN ok(x) ELSE c

\* The next handler: setRet(Result.ok(x)) behind the guard.
NextWrite(live, c, x) == IF live THEN ok(x) ELSE c

\* Mutant: a failure after an item is ignored.
ErrorWriteUnlessOk(live, c, e) == IF live /\ c.tag # "ok" THEN err(e) ELSE c

\* The error handler: setRet(Result.err(e)) behind the guard.
ErrorWrite(live, c, e) == IF live THEN err(e) ELSE c

\* Mutant: the deferred check does not look at `set`.
EmptyCheckWriteIgnoresSet(live, r0, set, c) ==
  IF live /\ r0.tag = "pending" THEN err(EmptyError) ELSE c

\* Mutant: the deferred check never writes.
EmptyCheckWriteNever(live, r0, set, c) == c

\* Mutant: the deferred check looks only at `ret` and `set`, not at the
\* liveness of its activation.
EmptyCheckWriteStale(live, r0, set, c) ==
  IF r0.tag = "pending" /\ ~set THEN err(EmptyError) ELSE c

\* Mutant: the deferred check does not look at the cell.
EmptyCheckWriteOverwrites(live, r0, set, c) ==
  IF live /\ ~set THEN err(EmptyError) ELSE c

\* The deferred check of the complete handler:
\* `if (isCurrentSubscription && mounted.current && ret.isPending() && !set)
\*    setRet(Result.err(new Error('Observable must have at least one element')))`,
\* where `ret` is the cell as the render of the activation saw it.
EmptyCheckWrite(live, r0, set, c) ==
  IF live /\ r0.tag = "pending" /\ ~set THEN err(EmptyError) ELSE c

\* Mutant: the catch writes nothing.
CatchWriteNothing(c, e) == c

\* `catch (e) { setRet(Result.err(e)) }`.
CatchWrite(c, e) == err(e)

\* The activation's locals once the effect has run, by how it went.
Activated(how, r0) ==
  [IdleSub EXCEPT !.st = how, !.isCurrentSubscription = TRUE, !.retAtRender = r0]

\* The body of the effect past its mounted check: block().subscribe(...) in a
\* try, for activation k; `throws` is whether the factory or subscribe throws.
Subscribe(s, k, throws) ==
  IF throws
  THEN [s EXCEPT !.sub[k] = Activated("threw", s.ret),
                 !.factoryCalls = @ + 1,
                 !.ret = CatchWrite(s.ret, Thrown)]
  ELSE [s EXCEPT !.sub[k] = Activated("subscribed", s.ret),
                 !.factoryCalls = @ + 1]

\* Mutant: an activation resets the cell to Pending.
useObservableEffectResets(s, k, throws) ==
  IF ~s.mounted
  THEN [s EXCEPT !.sub[k] = Activated("skipped", s.ret)]
  ELSE Subscribe([s EXCEPT !.ret = pending], k, throws)

\* Mutant: the effect does not look at mounted.
useObservableEffectAnyway(s, k, throws) == Subscribe(s, k, throws)

\* The effect of useObservable, run for activation k:
\* `if (!mounted.current) return () => {}`, then the subscription.
useObservableEffect(s, k, throws) ==
  IF ~s.mounted
  THEN [s EXCEPT !.sub[k] = Activated("skipped", s.ret)]
  ELSE Subscribe(s, k, throws)

\* Mutant: the cleanup leaves the subscription in place.
useObservableCleanupKeeps(s, k) ==
  IF s.sub[k].st \in {"subscribed", "threw"}
  THEN [s EXCEPT !.sub[k].isCurrentSubscription = FALSE]
  ELSE s

\* Mutant: the cleanup unsubscribes and leaves the liveness flag set.
useObservableCleanupStaysLive(s, k) ==
  IF s.sub[k].st = "subscribed"
  THEN [s EXCEPT !.sub[k].closed = TRUE, !.sub[k].unsubs = @ + 1]
  ELSE s

\* The cleanup the effect returned for activation k:
\* `isCurrentSubscription = false; d.unsubscribe()`, where d is the
\* subscription, or Subscription.EMPTY when subscribing threw; the skipped
\* activation returned `() => {}`.
useObservableCleanup(s, k) ==
  CASE s.sub[k].st = "subscribed" ->
         [s EXCEPT !.sub[k].isCurrentSubscription = FALSE,
                   !.sub[k].closed = TRUE,
                   !.sub[k].unsubs = @ + 1]
    [] s.sub[k].st = "threw" ->
         [s EXCEPT !.sub[k].isCurrentSubscription = FALSE]
    [] OTHER -> s

\* Mutant: the effect runs again on every render.
DepsChangedAlways(old, new) == TRUE

\* Whether React runs the effect again: its dependency list changed.
DepsChanged(old, new) == old # new

\* ----------------------------------------------------- useObservable steps
ObsInit ==
  /\ Init
  /\ runOnStart = FALSE

\* The effects of the first render run: useMounted's, then useObservable's.
ObsMount ==
  /\ phase = "rendered"
  /\ \E throws \in BOOLEAN :
       LET s == useObservableEffect([ObsState EXCEPT !.mounted = useMountedEffect], 0, throws)
       IN /\ phase' = "mounted"
          /\ mounted' = s.mounted
          /\ ret' = s.ret
          /\ sub' = s.sub
          /\ factoryCalls' = s.factoryCalls
  /\ ev' = NoEvent
  /\ UNCHANGED <<deps, epoch>>
  /\ UNCHANGED cmdVars
  /\ UNCHANGED libVars

\* The component renders again with dependency list d; when the list changed
\* the cleanup of the previous activation runs, then the effect.
ObsRerender ==
  /\ phase = "mounted"
  /\ \E d \in DepValues, throws \in BOOLEAN :
       IF DepsChanged(deps, d)
       THEN LET s == useObservableEffect(useObservableCleanup(ObsState, epoch),
                                         epoch + 1, throws)
            IN /\ epoch < MaxEpochs
               /\ deps' = d
               /\ epoch' = epoch + 1
               /\ ret' = s.ret
               /\ sub' = s.sub
               /\ factoryCalls' = s.factoryCalls
               /\ ev' = NoEvent
       ELSE /\ ~throws
            /\ ev' = Rendered
            /\ UNCHANGED <<deps, epoch, ret, sub, factoryCalls>>
  /\ UNCHANGED <<phase, mounted>>
  /\ UNCHANGED cmdVars
  /\ UNCHANGED libVars

\* The component unmounts: the cleanups of useMounted and of the latest
\* activation run.
ObsUnmount ==
  /\ phase = "mounted"
  /\ LET s == useObservableCleanup([ObsState EXCEPT !.mounted = useMountedCleanup], epoch)
     IN /\ phase' = "unmounted"
        /\ mounted' = s.mounted
        /\ sub' = s.sub
  /\ ev' = NoEvent
  /\ UNCHANGED <<ret, deps, epoch, factoryCalls>>
  /\ UNCHANGED cmdVars
  /\ UNCHANGED libVars

\* The source of activation k pushes item x. The rxjs subscriber passes it to
\* the next handler unless it is stopped or unsubscribed.
ObsNextOf(k, x) ==
  /\ sub[k].st = "subscribed"
  /\ IF sub[k].closed
     THEN /\ ev' = Dropped
          /\ UNCHANGED <<ret, sub>>
     ELSE /\ ev' = NoEvent
          /\ ret' = NextWrite(Live(sub[k], mounted), ret, x)
          /\ sub' = [sub EXCEPT ![k].set = @ \/ Live(sub[k], mounted),
                                 ![k].lastItem = x]
  /\ UNCHANGED <<phase, mounted, deps, epoch, factoryCalls>>
  /\ UNCHANGED cmdVars
  /\ UNCHANGED libVars

ObsNext == \E k \in Epochs, x \in Items : ObsNextOf(k, x)

\* The source of activation k fails. The subscriber stops.
ObsErrorOf(k) ==
  /\ sub[k].st = "subscribed"
  /\ IF sub[k].closed
     THEN /\ ev' = Dropped
          /\ UNCHANGED <<ret, sub>>
     ELSE /\ ev' = NoEvent
          /\ ret' = ErrorWrite(Live(sub[k], mounted), ret, StreamFailure)
          /\ sub' = [sub EXCEPT ![k].set = @ \/ Live(sub[k], mounted),
                                 ![k].done = @ \/ Live(sub[k], mounted),
                                 ![k].closed = TRUE,
                                 ![k].term = "error"]
  /\ UNCHANGED <<phase, mounted, deps, epoch, factoryCalls>>
  /\ UNCHANGED cmdVars
  /\ UNCHANGED libVars

ObsError == \E k \in Epochs : ObsErrorOf(k)

\* The source of activation k completes. The subscriber stops; the complete
\* handler queues the deferred check: `if (!isCurrentSubscription) return;
\* done = true; Promise.resolve().then(...)`.
ObsCompleteOf(k) ==
  /\ sub[k].st = "subscribed"
  /\ IF sub[k].closed
     THEN /\ ev' = Dropped
          /\ UNCHANGED sub
     ELSE /\ ev' = NoEvent
          /\ sub' = [sub EXCEPT ![k].done = @ \/ sub[k].isCurrentSubscription,
                                 ![k].check = IF sub[k].isCurrentSubscription
                                              THEN "queued" ELSE @,
                                 ![k].closed = TRUE,
                                 ![k].term = "complete"]
  /\ UNCHANGED <<ret, phase, mounted, deps, epoch, factoryCalls>>
  /\ UNCHANGED cmdVars
  /\ UNCHANGED libVars

ObsComplete == \E k \in Epochs : ObsCompleteOf(k)

\* The deferred check of activation k runs.
ObsDeferredCheckOf(k) ==
  /\ sub[k].check = "queued"
  /\ ret' = EmptyCheckWrite(Live(sub[k], mounted), sub[k].retAtRender, sub[k].set, ret)
  /\ sub' = [sub EXCEPT ![k].check = "ran"]
  /\ ev' = NoEvent
  /\ UNCHANGED <<phase, mounted, deps, epoch, factoryCalls>>
  /\ UNCHANGED cmdVars
  /\ UNCHANGED libVars

ObsDeferredCheck == \E k \in Epochs : ObsDeferredCheckOf(k)

ObsNextStep ==
  \/ ObsMount
  \/ ObsRerender
  \/ ObsUnmount
  \/ ObsNext
  \/ ObsError
  \/ ObsComplete
  \/ ObsDeferredCheck

SpecObs == ObsInit /\ [][ObsNextStep]_vars

\* With the event loop's guarantee that a queued microtask runs.
FairSpecObs == SpecObs /\ WF_vars(ObsDeferredCheck)

\* What the cell of useObservable can hold.
Cells == {pending, err(StreamFailure), err(Thrown), err(EmptyError)} \cup {ok(x) : x \in Items}

ObsTypeOK ==
  /\ ret \in Cells
  /\ epoch \in Epochs
  /\ factoryCalls \in 0 .. MaxEpochs + 1
  /\ ev \in {NoEvent, Dropped, Rendered}
  /\ \A k \in Epochs :
       /\ sub[k].st \in {"idle", "subscribed", "threw", "skipped"}
       /\ sub[k].check \in {"none", "queued", "ran"}
       /\ sub[k].term \in {"none", "error", "complete"}
       /\ sub[k].retAtRender \in Cells
       /\ sub[k].lastItem \in Items \cup {NoItem}
       /\ sub[k].unsubs \in 0 .. 1

\* ---------------------------------------------------- useObservable claims
\* An activation whose stream has delivered nothing yet.
NoEventYet(k) ==
  /\ sub[k].st = "subscribed"
  /\ sub[k].lastItem = NoItem
  /\ sub[k].term = "none"

\* C12 as stated: before the first event of the stream of the latest
\* activation, whichever it is, the cell is Pending.
C12_PendingBeforeFirstEvent ==
  (mounted /\ NoEventYet(epoch)) => ret = pending

\* C12, amended: the cell is Pending before the first event of the stream of
\* the first activation; an item x that the live subscription of a mounted
\* component emits makes the cell Ok(x), whatever it held, so that the cell
\* holds the item emitted last.
C12_ItemsInOrder ==
  /\ []((phase = "rendered" \/ (epoch = 0 /\ NoEventYet(0))) => ret = pending)
  /\ [][\A k \in Epochs, x \in Items :
          (ObsNextOf(k, x) /\ ~sub[k].closed /\ Live(sub[k], mounted)) => ret' = ok(x)]_vars
  /\ [](\A k \in Epochs :
          (Live(sub[k], mounted) /\ sub[k].lastItem # NoItem /\ sub[k].term # "error")
            => ret = ok(sub[k].lastItem))

\* C12 witness: the live subscription emitted item 2 over a cell that held
\* Ok(item 1), and the cell is Ok(item 2).
C12_Witness ==
  /\ mounted
  /\ sub[epoch].isCurrentSubscription
  /\ sub[epoch].retAtRender = ok(Item(1))
  /\ sub[epoch].lastItem = Item(2)
  /\ ret = ok(Item(2))

\* A push of stream k: an item, a failure or a completion.
PushOf(k) ==
  \/ \E x \in Items : ObsNextOf(k, x)
  \/ ObsErrorOf(k)
  \/ ObsCompleteOf(k)

\* C13: when the stream of the live subscription of a mounted component fails
\* with e the cell becomes Error(e), also after items, and it stays Error(e):
\* nothing the failed stream pushes later changes the cell.
C13_FailureIsTerminal ==
  /\ [][\A k \in Epochs :
          (ObsErrorOf(k) /\ ~sub[k].closed /\ Live(sub[k], mounted))
            => ret' = err(StreamFailure)]_vars
  /\ [][\A k \in Epochs : (PushOf(k) /\ sub[k].term = "error") => ret' = ret]_vars
  /\ [](\A k \in Epochs :
          (Live(sub[k], mounted) /\ sub[k].term = "error") => ret = err(StreamFailure))

\* C13 witness: the first stream emitted an item, failed, and pushed again; the
\* cell is Error(e).
C13_Witness ==
  /\ mounted
  /\ epoch = 0
  /\ sub[0].isCurrentSubscription
  /\ sub[0].lastItem # NoItem
  /\ sub[0].term = "error"
  /\ ev = Dropped
  /\ ret = err(StreamFailure)

\* C14: when the stream of the current subscription completes after at least
\* one item the cell stays Ok(the last item): the deferred check writes no
\* Error, and what the completed stream pushes later does not change the
\* cell.
C14_CompleteKeepsLastItem ==
  /\ [](\A k \in Epochs :
          (sub[k].isCurrentSubscription /\ sub[k].term = "complete" /\ sub[k].lastItem # NoItem)
            => ret = ok(sub[k].lastItem))
  /\ [][\A k \in Epochs : (PushOf(k) /\ sub[k].term = "complete") => ret' = ret]_vars
  /\ [][\A k \in Epochs :
          (ObsDeferredCheckOf(k) /\ sub[k].lastItem # NoItem) => ret' = ret]_vars

\* C14 witness: the first stream emitted item 1 and completed, its deferred
\* check ran, it pushed again, and the cell is Ok(item 1).
C14_Witness ==
  /\ mounted
  /\ epoch = 0
  /\ sub[0].isCurrentSubscription
  /\ sub[0].lastItem = Item(1)
  /\ sub[0].term = "complete"
  /\ sub[0].check = "ran"
  /\ ev = Dropped
  /\ ret = ok(Item(1))

\* An activation whose stream completed without an item.
CompletedEmpty(k) ==
  /\ sub[k].term = "complete"
  /\ sub[k].lastItem = NoItem

\* C15 as stated: in any activation whose stream completed without an item,
\* once the deferred check has run with the subscription live and the
\* component mounted, the cell is Error("Observable must have at least one
\* element").
C15_EmptyCompletionAlwaysError ==
  \A k \in Epochs :
    (CompletedEmpty(k) /\ sub[k].check = "ran" /\ Live(sub[k], mounted))
      => ret = err(EmptyError)

\* C15, amended: in an activation that started with the cell Pending and
\* whose stream completes without an item, the cell becomes
\* Error("Observable must have at least one element") unless the subscription
\* is torn down or the component unmounts first; in an activation that started
\* with Ok or Error in the cell the deferred check leaves the cell as it was.
C15_EmptyCompletionError ==
  /\ \A k \in Epochs :
       (CompletedEmpty(k) /\ sub[k].retAtRender = pending)
         ~> (ret = err(EmptyError) \/ ~Live(sub[k], mounted))
  /\ [](\A k \in Epochs :
          (CompletedEmpty(k) /\ sub[k].check = "ran" /\ Live(sub[k], mounted)
             /\ sub[k].retAtRender = pending)
            => ret = err(EmptyError))
  /\ [][\A k \in Epochs :
          (ObsDeferredCheckOf(k) /\ sub[k].retAtRender # pending) => ret' = ret]_vars

\* C15 witness: the stream of the first activation completed empty, the
\* deferred check ran on the live subscription, and the cell is the error.
C15_Witness ==
  /\ Live(sub[0], mounted)
  /\ CompletedEmpty(0)
  /\ sub[0].check = "ran"
  /\ ret = err(EmptyError)

\* C16: once an activation is torn down, by a change of the dependency list
\* or by the unmount, nothing of its subscription changes the cell: not an
\* item, a failure or a completion its stream pushes, not its deferred check.
C16_TornDownNeverWrites ==
  [][\A k \in Epochs :
       ((PushOf(k) \/ ObsDeferredCheckOf(k)) /\ ~sub[k].isCurrentSubscription)
         => ret' = ret]_vars

\* C16 witness: the stream of the first activation completed empty, the
\* dependency list changed before its deferred check ran, the check ran, the
\* old stream pushed again, and the cell is still Pending.
C16_Witness ==
  /\ mounted
  /\ epoch = 1
  /\ sub[1].st = "subscribed"
  /\ CompletedEmpty(0)
  /\ sub[0].check = "ran"
  /\ ~sub[0].isCurrentSubscription
  /\ ev = Dropped
  /\ ret = pending

\* C17: the first activation and every change of the dependency list call the
\* factory once and subscribe to what it returns, after unsubscribing the
\* previous subscription; no subscription is unsubscribed twice; a render that
\* leaves the dependency list unchanged calls nothing.
C17_OneSubscriptionPerActivation ==
  /\ [][ObsMount => (factoryCalls' = 1 /\ sub'[0].st \in {"subscribed", "threw"})]_vars
  /\ [][deps' # deps =>
          /\ factoryCalls' = factoryCalls + 1
          /\ sub'[epoch'].st \in {"subscribed", "threw"}
          /\ sub[epoch].st = "subscribed" =>
               (sub[epoch].unsubs = 0 /\ sub'[epoch].unsubs = 1 /\ sub'[epoch].closed)]_vars
  /\ [][(ObsRerender /\ deps' = deps) => (factoryCalls' = factoryCalls /\ sub' = sub)]_vars
  /\ [](\A k \in Epochs :
          /\ sub[k].unsubs <= 1
          /\ (k < epoch /\ sub[k].st = "subscribed") => sub[k].unsubs = 1)
  /\ [](phase # "rendered" => factoryCalls = epoch + 1)

\* C17 witness: after two changes of the dependency list the factory was
\* called three times, the first two subscriptions were unsubscribed once
\* each, and a render without a change followed.
C17_Witness ==
  /\ epoch = 2
  /\ factoryCalls = 3
  /\ sub[0].unsubs = 1
  /\ sub[1].unsubs = 1
  /\ sub[2].st = "subscribed"
  /\ ev = Rendered

\* C18 as stated: after a change of the dependency list and until the new
\* stream's first event the cell is Pending.
C18_NewEpochStartsPending ==
  (mounted /\ epoch >= 1 /\ NoEventYet(epoch)) => ret = pending

\* C18, amended: a change of the dependency list that subscribes to a new
\* stream does not write the cell: until the new stream's first event the cell
\* holds what the previous activation left in it.
C18_NewEpochKeepsCell ==
  /\ [][(deps' # deps /\ sub'[epoch'].st = "subscribed") => ret' = ret]_vars
  /\ [](NoEventYet(epoch) => ret = sub[epoch].retAtRender)

\* C18 witness: the second activation has delivered nothing yet and the cell
\* is the Ok(item 1) of the first.
C18_Witness ==
  /\ mounted
  /\ epoch = 1
  /\ NoEventYet(1)
  /\ sub[0].lastItem = Item(1)
  /\ ret = ok(Item(1))

\* C20: when the factory or subscribe throws e the effect catches it: the
\* cell becomes Error(e) and the component goes on.
C20_SyncThrowBecomesError ==
  /\ [][((ObsMount \/ deps' # deps) /\ sub'[epoch'].st = "threw")
          => (ret' = err(Thrown) /\ phase' = "mounted"
              /\ sub'[epoch'].isCurrentSubscription)]_vars
  /\ [](\A k \in Epochs : sub[k].st = "threw" => sub[k].unsubs = 0)

\* C20 witness: the factory of the second activation threw over a cell that
\* held Ok(item 1), and the cell is Error(e).
C20_Witness ==
  /\ mounted
  /\ epoch = 1
  /\ sub[1].st = "threw"
  /\ sub[1].retAtRender = ok(Item(1))
  /\ ret = err(Thrown)

\* ------------------------------------------- the effect on any hook state
\* The effect of useObservable applied to a hook state drawn from what the
\* hook can hold: mounted.current either way, any cell. (Under SpecObs the
\* effect of useMounted always runs before it, so there it only ever sees
\* mounted.current = true.)
EffectInit ==
  /\ mounted \in BOOLEAN
  /\ phase = (IF mounted THEN "mounted" ELSE "unmounted")
  /\ ret \in Cells
  /\ sub = [k \in Epochs |-> IdleSub]
  /\ epoch = 0
  /\ factoryCalls = 0
  /\ ev = NoEvent
  /\ deps = "a"
  /\ current = InitialResult
  /\ cur = None
  /\ inv = [i \in CallIds |-> Unused]
  /\ nCalls = 0
  /\ cbId = 0
  /\ runOnStart = FALSE
  /\ autoRuns = 0
  /\ last = "none"
  /\ fcp = [i \in Subscribers |-> IdleBridge]
  /\ result = pending
  /\ call = NoCall

\* The effect runs.
EffectRun ==
  /\ sub[0].st = "idle"
  /\ \E throws \in BOOLEAN :
       LET s == useObservableEffect(ObsState, 0, throws)
       IN /\ ret' = s.ret
          /\ sub' = s.sub
          /\ factoryCalls' = s.factoryCalls
  /\ ev' = NoEvent
  /\ UNCHANGED <<phase, mounted, deps, epoch>>
  /\ UNCHANGED cmdVars
  /\ UNCHANGED libVars

\* The cleanup the effect returned runs (the `() => {}` of the skipped
\* activation does nothing).
EffectCleanup ==
  /\ sub[0].st \in {"subscribed", "threw"}
  /\ sub[0].isCurrentSubscription
  /\ LET s == useObservableCleanup(ObsState, 0)
     IN sub' = s.sub
  /\ ev' = NoEvent
  /\ UNCHANGED <<ret, phase, mounted, deps, epoch, factoryCalls>>
  /\ UNCHANGED cmdVars
  /\ UNCHANGED libVars

EffectNext ==
  \/ EffectRun
  \/ EffectCleanup
  \/ ObsNext
  \/ ObsError
  \/ ObsComplete
  \/ ObsDeferredCheck

SpecEffect == EffectInit /\ [][EffectNext]_vars

\* C19: when the component is not mounted as the effect runs, the factory is
\* not called, no subscription exists afterwards, and neither the effect nor
\* anything after it writes the cell.
C19_UnmountedActivationIsNoop ==
  /\ [][(EffectRun /\ ~mounted) =>
          (factoryCalls' = factoryCalls /\ ret' = ret /\ sub'[0].st = "skipped")]_vars
  /\ [](sub[0].st = "skipped" => (factoryCalls = 0 /\ sub[0].unsubs = 0))
  /\ [][sub[0].st = "skipped" => (ret' = ret /\ sub'[0].st = "skipped")]_vars

\* C19 witness: the effect ran unmounted over a cell holding Ok(item 1): no
\* factory call, no subscription, the cell as it was.
C19_Witness ==
  /\ ~mounted
  /\ sub[0].st = "skipped"
  /\ factoryCalls = 0
  /\ ret = ok(Item(1))

\* --------------------------------------------- fromCancellablePromise steps
BridgeInit ==
  /\ Init
  /\ runOnStart = FALSE

\* The observable is subscribed to: the operation is called, and either
\* returns its promise or throws.
FcpSubscribeOf(i) ==
  /\ fcp[i].pc = "idle"
  /\ \E throws \in BOOLEAN :
       fcp' = [fcp EXCEPT ![i] = IF throws
                                 THEN [OnRejected(@, Thrown) EXCEPT !.pc = "threw"]
                                 ELSE [@ EXCEPT !.pc = "running"]]
  /\ UNCHANGED <<phase, mounted, deps, result, call>>
  /\ UNCHANGED <<cmdVars, obsVars>>

FcpSubscribe == \E i \in Subscribers : FcpSubscribeOf(i)

\* The running operation reads the flag.
FcpPollOf(i) ==
  /\ fcp[i].pc = "running"
  /\ fcp' = [fcp EXCEPT ![i].lastRead = ReadFlag(fcp[i])]
  /\ UNCHANGED <<phase, mounted, deps, result, call>>
  /\ UNCHANGED <<cmdVars, obsVars>>

FcpPoll == \E i \in Subscribers : FcpPollOf(i)

\* The operation settles, whatever the flag says: the reaction is queued.
FcpSettleOf(i) ==
  /\ fcp[i].pc = "running"
  /\ \E o \in Outcomes(i) :
       fcp' = [fcp EXCEPT ![i].pc = "settled",
                          ![i].outcome = o,
                          ![i].unsubAtSettle = fcp[i].unsubscribed]
  /\ UNCHANGED <<phase, mounted, deps, result, call>>
  /\ UNCHANGED <<cmdVars, obsVars>>

FcpSettle == \E i \in Subscribers : FcpSettleOf(i)

\* The reaction of p.then(...) runs.
FcpReactionOf(i) ==
  /\ fcp[i].pc = "settled"
  /\ fcp' = [fcp EXCEPT ![i] = [(IF fcp[i].outcome.tag = "ok"
                                 THEN OnFulfilled(@, fcp[i].outcome.value)
                                 ELSE OnRejected(@, fcp[i].outcome.value))
                                EXCEPT !.pc = "finished"]]
  /\ UNCHANGED <<phase, mounted, deps, result, call>>
  /\ UNCHANGED <<cmdVars, obsVars>>

FcpReaction == \E i \in Subscribers : FcpReactionOf(i)

\* The consumer unsubscribes.
FcpUnsubscribeOf(i) ==
  /\ fcp[i].pc # "idle"
  /\ ~fcp[i].unsubscribed
  /\ fcp' = [fcp EXCEPT ![i] = Unsubscribe(@)]
  /\ UNCHANGED <<phase, mounted, deps, result, call>>
  /\ UNCHANGED <<cmdVars, obsVars>>

FcpUnsubscribe == \E i \in Subscribers : FcpUnsubscribeOf(i)

BridgeNext ==
  \/ FcpSubscribe
  \/ FcpPoll
  \/ FcpSettle
  \/ FcpReaction
  \/ FcpUnsubscribe

SpecBridge == BridgeInit /\ [][BridgeNext]_vars

\* What a subscriber can have received.
Deliveries(i) ==
  {<<>>, <<<<"next", Value(i)>>, <<"complete", NoValue>>>>, <<<<"error", Failure(i)>>>>,
   <<<<"error", Thrown>>>>}

BridgeTypeOK ==
  \A i \in Subscribers :
    /\ fcp[i].pc \in {"idle", "running", "settled", "finished", "threw"}
    /\ fcp[i].lastRead \in {"none", "true", "false"}
    /\ fcp[i].outcome \in Outcomes(i) \cup {NoOutcome}
    /\ fcp[i].out \in Deliveries(i)

\* ------------------------------------------- fromCancellablePromise claims
\* What the consumer receives for outcome o: the value and the completion, or
\* the failure.
ExpectedDelivery(o) ==
  IF o.tag = "ok"
  THEN <<<<"next", o.value>>, <<"complete", NoValue>>>>
  ELSE <<<<"error", o.value>>>>

\* C21 as stated: a subscription that was not unsubscribed before the
\* operation settled has received exactly the outcome once its reaction ran.
C21_OutcomeUnlessUnsubscribedBeforeSettle ==
  \A i \in Subscribers :
    (fcp[i].pc = "finished" /\ ~fcp[i].unsubAtSettle)
      => fcp[i].out = ExpectedDelivery(fcp[i].outcome)

\* C21, amended: a subscription that is not unsubscribed before the reaction
\* to the settlement runs receives exactly one terminal outcome: the value and
\* then the completion on success, the failure on failure; no subscriber ever
\* receives both or receives anything after its outcome.
C21_OneTerminalOutcome ==
  /\ [][\A i \in Subscribers :
          (FcpReactionOf(i) /\ ~fcp[i].unsubscribed)
            => fcp'[i].out = ExpectedDelivery(fcp[i].outcome)]_vars
  /\ [](\A i \in Subscribers : fcp[i].out \in Deliveries(i))
  /\ [][\A i \in Subscribers : fcp[i].out # <<>> => fcp'[i].out = fcp[i].out]_vars

\* C21 witness: one subscription received the value and the completion,
\* another the failure.
C21_Witness ==
  /\ fcp[1].pc = "finished"
  /\ fcp[1].out = <<<<"next", Value(1)>>, <<"complete", NoValue>>>>
  /\ fcp[2].pc = "finished"
  /\ fcp[2].out = <<<<"error", Failure(2)>>>>

\* C22: the flag the running operation reads is true if its consumer has
\* unsubscribed and false if it has not.
C22_FlagTracksUnsubscription ==
  /\ [][\A i \in Subscribers :
          FcpPollOf(i)
            => fcp'[i].lastRead = (IF fcp[i].unsubscribed THEN "true" ELSE "false")]_vars
  /\ [](\A i \in Subscribers :
          fcp[i].pc = "running" => (fcp[i].cancelled <=> fcp[i].unsubscribed))

\* C22 witness: one operation read true after its consumer unsubscribed;
\* another read false and finished without an unsubscription.
C22_Witness ==
  /\ fcp[1].unsubscribed
  /\ fcp[1].lastRead = "true"
  /\ ~fcp[2].unsubscribed
  /\ fcp[2].lastRead = "false"
  /\ fcp[2].pc = "finished"

\* C23: after the consumer unsubscribed the operation can still settle, and
\* nothing reaches the subscriber any more: a subscription unsubscribed before
\* the operation settled has received nothing.
C23_NothingAfterUnsubscription ==
  /\ [][\A i \in Subscribers : fcp[i].unsubscribed => fcp'[i].out = fcp[i].out]_vars
  /\ [](\A i \in Subscribers :
          (fcp[i].pc = "running" /\ fcp[i].unsubscribed) => ENABLED FcpSettleOf(i))
  /\ [](\A i \in Subscribers :
          (fcp[i].pc = "finished" /\ fcp[i].unsubAtSettle) => fcp[i].out = <<>>)

\* C23 witness: the operation succeeded after the unsubscription, its
\* reaction ran, and the subscriber received nothing.
C23_Witness ==
  /\ fcp[1].pc = "finished"
  /\ fcp[1].unsubAtSettle
  /\ fcp[1].outcome = ok(Value(1))
  /\ fcp[1].out = <<>>

\* C24: when the operation throws as it is called, the subscriber receives
\* the exception as the stream's failure, once.
C24_SyncThrowIsFailure ==
  /\ [][\A i \in Subscribers :
          (FcpSubscribeOf(i) /\ fcp'[i].pc = "threw")
            => (fcp'[i].out = <<<<"error", Thrown>>>> /\ fcp'[i].cancelled)]_vars
  /\ [](\A i \in Subscribers : fcp[i].pc = "threw" => fcp[i].out = <<<<"error", Thrown>>>>)

\* C24 witness: the operation threw, the failure was delivered, and the
\* consumer's later unsubscription added nothing.
C24_Witness ==
  /\ fcp[1].pc = "threw"
  /\ fcp[1].unsubscribed
  /\ fcp[1].out = <<<<"error", Thrown>>>>

\* ------------------------------------------------------------------ Result
\* A method returned v, or threw an Error with message msg.
Returned(v) == [kind |-> "return", value |-> v]

Threw(msg) == [kind |-> "throw", value |-> msg]

NotOkMessage == <<"Value is not an Ok", 0>>

NotErrorMessage == <<"Value is not an Error", 0>>

\* A JavaScript boolean.
Bool(b) == IF b THEN <<"boolean", 1>> ELSE <<"boolean", 0>>

\* Whether `x ? ... : ...` and `!x` take x as true.
Truthy(x) ==
  x \notin {Undefined, JsNull, <<"number", 0>>, <<"string", 0>>, <<"boolean", 0>>}

\* OkValue, ErrorValue, PendingValue: isOk().
isOk(r) == r.tag = "ok"

\* isErr().
isErr(r) == r.tag = "err"

\* Mutant: everything that is not Ok counts as pending.
isPendingLoose(r) == r.tag # "ok"

\* isPending().
isPending(r) == r.tag = "pending"

\* The method ok(): the value of an OkValue, undefined otherwise.
okValue(r) == IF r.tag = "ok" THEN r.value ELSE Undefined

\* The method err(): the value of an ErrorValue, undefined otherwise.
errValue(r) == IF r.tag = "err" THEN r.value ELSE Undefined

\* Mutant: expect returns undefined where it should throw.
expectLenient(r) == Returned(okValue(r))

\* expect().
expect(r) == IF ~isOk(r) THEN Threw(NotOkMessage) ELSE Returned(okValue(r))

\* expectErr().
expectErr(r) == IF ~isErr(r) THEN Threw(NotErrorMessage) ELSE Returned(errValue(r))

\* A call of the function fn on x.
Apply(fn, x) ==
  CASE fn.f = "const" -> fn.a                      \* () => val
    [] fn.f = "false" -> Bool(FALSE)               \* () => false
    [] fn.f = "isUndefined" -> Bool(x = Undefined) \* (x) => x === undefined
    [] fn.f = "okOr" ->                            \* (x) => (filterNullish && !x ? val : x)
         IF fn.b /\ ~Truthy(x) THEN fn.a ELSE x
    [] OTHER -> <<fn.f, x>>                        \* a test function: records its call

\* Mutant: map applies fn to the error too.
mapAll(r, fn) ==
  IF isPending(r) THEN Returned(pending)
  ELSE IF isErr(r) THEN Returned(err(Apply(fn, errValue(r))))
  ELSE Returned(ok(Apply(fn, okValue(r))))

\* map(fn).
map(r, fn) ==
  IF isErr(r) THEN Returned(err(expectErr(r).value))
  ELSE IF isPending(r) THEN Returned(pending)
  ELSE Returned(ok(Apply(fn, expect(r).value)))

\* mapErr(fn).
mapErr(r, fn) ==
  IF isOk(r) THEN Returned(ok(expect(r).value))
  ELSE IF isPending(r) THEN Returned(pending)
  ELSE Returned(err(Apply(fn, expectErr(r).value)))

\* Mutant: the null handler is preferred only for null and undefined.
mapOrElseNullish(r, ops) ==
  IF isPending(r)
  THEN Returned(IF ops.pending # Absent THEN Apply(ops.pending, Undefined) ELSE Undefined)
  ELSE IF isErr(r)
  THEN Returned(IF ops.err # Absent THEN Apply(ops.err, errValue(r)) ELSE Undefined)
  ELSE LET v == okValue(r)
           fn == IF v \notin {Undefined, JsNull} THEN ops.ok
                 ELSE IF ops.null # Absent THEN ops.null ELSE ops.ok
       IN Returned(IF fn # Absent THEN Apply(fn, v) ELSE Undefined)

\* mapOrElse(ops): `const fn = ret ? ops.ok : ops.null ?? ops.ok`.
mapOrElse(r, ops) ==
  IF isPending(r)
  THEN Returned(IF ops.pending # Absent THEN Apply(ops.pending, Undefined) ELSE Undefined)
  ELSE IF isErr(r)
  THEN Returned(IF ops.err # Absent THEN Apply(ops.err, expectErr(r).value) ELSE Undefined)
  ELSE LET v == expect(r).value
           fn == IF Truthy(v) THEN ops.ok
                 ELSE IF ops.null # Absent THEN ops.null ELSE ops.ok
       IN Returned(IF fn # Absent THEN Apply(fn, v) ELSE Undefined)

\* Mutant: the filter only drops null and undefined.
okOrNullish(r, val, filterNullish) ==
  Returned(IF isOk(r)
           THEN (IF filterNullish /\ okValue(r) \in {Undefined, JsNull} THEN val ELSE okValue(r))
           ELSE val)

\* okOr(val, filterNullish).
okOr(r, val, filterNullish) ==
  mapOrElse(r, [err |-> Fn("const", val, FALSE),
                pending |-> Fn("const", val, FALSE),
                ok |-> Fn("okOr", val, filterNullish),
                null |-> Absent])

\* Mutant: Ok(null) counts as undefined too.
isUndefinedLoose(r) == Returned(Bool(isOk(r) /\ okValue(r) \in {Undefined, JsNull}))

\* isUndefined().
isUndefined(r) ==
  mapOrElse(r, [err |-> Fn("false", Undefined, FALSE),
                pending |-> Fn("false", Undefined, FALSE),
                ok |-> Fn("isUndefined", Undefined, FALSE),
                null |-> Absent])

\* Mutant: the failure of the task is passed on as a rejection.
fromPromiseRejects(val) ==
  CASE val.st = "pending" -> PromisePending
    [] val.st = "resolved" -> PromiseResolved(ok(val.value))
    [] val.st = "rejected" -> PromiseRejected(val.value)

\* Result.fromPromise(val): `val.then((x) => Result.ok(x), (ex) =>
\* Result.err(ex))`, the promise it returns given the state of the task.
fromPromise(val) ==
  CASE val.st = "pending" -> PromisePending
    [] val.st = "resolved" -> PromiseResolved(ok(val.value))
    [] val.st = "rejected" -> PromiseResolved(err(val.value))

\* ------------------------------------------------------------ Result steps
\* The error a Result under test holds.
JsError == <<"error", 0>>

\* The Results the methods are called on.
Results == {pending} \cup {ok(v) : v \in JsValues} \cup {err(e) : e \in {JsError, Undefined}}

\* The handlers a test passes to mapOrElse: each records that it was called,
\* and with what.
Handler(name) == Fn(name, Undefined, FALSE)

\* Every choice of which handlers are supplied.
AllOps ==
  {[err |-> e, pending |-> p, ok |-> o, null |-> n] :
     e \in {Absent, Handler("err")}, p \in {Absent, Handler("pending")},
     o \in {Absent, Handler("ok")}, n \in {Absent, Handler("null")}}

\* The function a test passes to map and mapErr.
TestFn == Fn("fn", Undefined, FALSE)

\* The defaults a test passes to okOr.
Defaults == {<<"number", 1>>, JsNull}

ResultInit ==
  /\ Init
  /\ runOnStart = FALSE

\* A Result is made: Result.ok(v), Result.err(e) or Result.pending().
MakeResult ==
  /\ call.method = "none"
  /\ \E r \in Results : result' = r
  /\ call' = MethodCall("new", Absent, NoOps, Undefined, FALSE, Returned(Undefined))
  /\ UNCHANGED <<phase, mounted, deps, fcp>>
  /\ UNCHANGED <<cmdVars, obsVars>>

\* A method is called on the Result.
Called(c) ==
  /\ call.method # "none"
  /\ call' = c
  /\ UNCHANGED <<phase, mounted, deps, fcp, result>>
  /\ UNCHANGED <<cmdVars, obsVars>>

CallIsOk == Called(MethodCall("isOk", Absent, NoOps, Undefined, FALSE, Returned(Bool(isOk(result)))))

CallIsErr == Called(MethodCall("isErr", Absent, NoOps, Undefined, FALSE, Returned(Bool(isErr(result)))))

CallIsPending ==
  Called(MethodCall("isPending", Absent, NoOps, Undefined, FALSE, Returned(Bool(isPending(result)))))

CallExpect == Called(MethodCall("expect", Absent, NoOps, Undefined, FALSE, expect(result)))

CallExpectErr == Called(MethodCall("expectErr", Absent, NoOps, Undefined, FALSE, expectErr(result)))

CallMap == Called(MethodCall("map", TestFn, NoOps, Undefined, FALSE, map(result, TestFn)))

CallMapErr == Called(MethodCall("mapErr", TestFn, NoOps, Undefined, FALSE, mapErr(result, TestFn)))

CallMapOrElse ==
  \E ops \in AllOps :
    Called(MethodCall("mapOrElse", Absent, ops, Undefined, FALSE, mapOrElse(result, ops)))

CallOkOr ==
  \E d \in Defaults, filterNullish \in BOOLEAN :
    Called(MethodCall("okOr", Absent, NoOps, d, filterNullish, okOr(result, d, filterNullish)))

CallIsUndefined ==
  Called(MethodCall("isUndefined", Absent, NoOps, Undefined, FALSE, isUndefined(result)))

\* The ways a task given to Result.fromPromise settles.
Tasks == {PromiseResolved(v) : v \in JsValues} \cup {PromiseRejected(e) : e \in {JsError, Undefined}}

\* Result.fromPromise is called on a task that has not settled.
CallFromPromise ==
  Called(MethodCall("fromPromise", Absent, NoOps, NoValue, FALSE,
                    Returned(fromPromise(PromisePending))))

\* The task settles: val holds what it settled with (NoValue until then),
\* flag whether it failed.
TaskSettles ==
  /\ call.method = "fromPromise"
  /\ call.ret.value.st = "pending"
  /\ \E task \in Tasks :
       call' = [call EXCEPT !.val = task.value, !.flag = (task.st = "rejected"),
                            !.ret = Returned(fromPromise(task))]
  /\ UNCHANGED <<phase, mounted, deps, fcp, result>>
  /\ UNCHANGED <<cmdVars, obsVars>>

ResultNext ==
  \/ MakeResult
  \/ CallFromPromise
  \/ TaskSettles
  \/ CallIsOk
  \/ CallIsErr
  \/ CallIsPending
  \/ CallExpect
  \/ CallExpectErr
  \/ CallMap
  \/ CallMapErr
  \/ CallMapOrElse
  \/ CallOkOr
  \/ CallIsUndefined

SpecResult == ResultInit /\ [][ResultNext]_vars

\* ------------------------------------------------------------ Result claims
\* The values JavaScript takes as false.
Falsy == {Undefined, JsNull, <<"number", 0>>, <<"string", 0>>, <<"boolean", 0>>}

\* C25: of isOk, isErr and isPending exactly one is true of every Result, the
\* one of its constructor, whatever its payload.
C25_ExactlyOnePredicate ==
  /\ [](LET n(b) == IF b THEN 1 ELSE 0
        IN n(isOk(result)) + n(isErr(result)) + n(isPending(result)) = 1)
  /\ [](call.method = "isOk" => call.ret = Returned(Bool(result.tag = "ok")))
  /\ [](call.method = "isErr" => call.ret = Returned(Bool(result.tag = "err")))
  /\ [](call.method = "isPending" => call.ret = Returned(Bool(result.tag = "pending")))

\* C25 witness: isPending() returned false on ok(undefined).
C25_Witness ==
  /\ result = ok(Undefined)
  /\ call.method = "isPending"
  /\ call.ret = Returned(Bool(FALSE))

\* C26: expect() returns v on ok(v) and throws 'Value is not an Ok' on any
\* other Result; expectErr() returns e on err(e) and throws 'Value is not an
\* Error' on any other.
C26_ExpectReturnsOrThrows ==
  /\ [](call.method = "expect" =>
          call.ret = (IF result.tag = "ok" THEN Returned(result.value)
                      ELSE Threw(<<"Value is not an Ok", 0>>)))
  /\ [](call.method = "expectErr" =>
          call.ret = (IF result.tag = "err" THEN Returned(result.value)
                      ELSE Threw(<<"Value is not an Error", 0>>)))

\* C26 witness: expect() threw on Pending.
C26_Witness ==
  /\ result = pending
  /\ call.method = "expect"
  /\ call.ret = Threw(<<"Value is not an Ok", 0>>)

\* C27: map(f) turns ok(v) into ok(f(v)) and returns Error and Pending as
\* they are, f not called; mapErr(g) turns err(e) into err(g(e)) and returns
\* Ok and Pending as they are, g not called.
C27_MapPreservesTag ==
  /\ [](call.method = "map" =>
          call.ret = Returned(IF result.tag = "ok"
                              THEN ok(<<"fn", result.value>>) ELSE result))
  /\ [](call.method = "mapErr" =>
          call.ret = Returned(IF result.tag = "err"
                              THEN err(<<"fn", result.value>>) ELSE result))

\* C27 witness: map(f) returned err(e) for err(e).
C27_Witness ==
  /\ result = err(JsError)
  /\ call.method = "map"
  /\ call.ret = Returned(err(JsError))

\* The handler C28 says mapOrElse selects.
SelectedHandler(r, ops) ==
  CASE r.tag = "pending" -> "pending"
    [] r.tag = "err" -> "err"
    [] r.tag = "ok" /\ r.value \notin Falsy -> "ok"
    [] OTHER -> IF ops.null # Absent THEN "null" ELSE "ok"

C30_IsUndefinedOnlyOkUndefined ==
  [](call.method = "isUndefined" =>
       /\ call.ret.kind = "return"
       /\ call.ret.value \in {Bool(TRUE), Bool(FALSE)}
       /\ call.ret.value = Bool(result = ok(Undefined)))

\* C30 witness: isUndefined() returned false on ok(null).
C30_Witness ==
  /\ result = ok(JsNull)
  /\ call.method = "isUndefined"
  /\ call.ret = Returned(Bool(FALSE))

\* C31: the promise Result.fromPromise(task) returns never rejects and never
\* resolves to Pending: it is unsettled while the task is, and once the task
\* has settled it is resolved, to ok(value) if the task succeeded with value
\* and to err(error) if it failed with error.
C31_FromPromiseNeverRejects ==
  call.method = "fromPromise" =>
    LET p == call.ret.value
    IN /\ p.st # "rejected"
       /\ call.val = NoValue => p.st = "pending"
       /\ call.val # NoValue =>
            /\ p.st = "resolved"
            /\ ~isPending(p.value)
            /\ p.value = (IF call.flag THEN err(call.val) ELSE ok(call.val))

\* C31 witness: the task failed and the promise resolved to err of its error.
C31_Witness ==
  /\ call.method = "fromPromise"
  /\ call.flag
  /\ call.val = JsError
  /\ call.ret.value.st = "resolved"
  /\ isErr(call.ret.value.value)

\* C32: a call of the callback made while the block is already running (the
\* slot is occupied) returns the promise of the pending invocation, so the
\* caller receives the outcome of the invocation in flight: the call does not
\* resolve to null.
C32_BusyCallReturnsInFlightPromise ==
  [][(Invoke /\ SlotBusy(cur)) => last' # "null"]_vars

\* C33: the flag of useMounted is true from the first render for as long as
\* the component is mounted and false once it is unmounted, and the step that
\* unmounts the component is the one that clears it.
C33_MountedFlagTracksMount ==
  /\ [](phase \in {"rendered", "mounted"} => mounted)
  /\ [](phase = "unmounted" => ~mounted)
  /\ [][Unmount => (mounted /\ ~mounted')]_vars

\* C33 witness: the component was unmounted while its first invocation was in
\* flight, and the flag is false.
C33_Witness ==
  /\ phase = "unmounted"
  /\ ~mounted
  /\ inv[1].pc = "running"

\* C34: the cell becomes Error("Observable must have at least one element")
\* only in a step of the deferred check of a completed stream, and only when
\* the activation is live, the component is mounted, the stream delivered no
\* item and no failure, and the cell is Pending; the deferred check never
\* changes a cell that holds Ok or Error, nor the cell of an activation whose
\* stream delivered an item before it completed.
C34_EmptyErrorOnlyFromDeferredCheck ==
  /\ [][(ret' = err(EmptyError) /\ ret # err(EmptyError)) =>
          \E k \in Epochs :
            /\ ObsDeferredCheckOf(k)
            /\ Live(sub[k], mounted)
            /\ CompletedEmpty(k)
            /\ ~sub[k].set
            /\ ret = pending]_vars
  /\ [][\A k \in Epochs :
          (ObsDeferredCheckOf(k) /\ (ret.tag # "pending" \/ sub[k].set)) => ret' = ret]_vars

\* C34 witness: the first stream delivered item 1; the second activation
\* completed empty and its deferred check ran live on the mounted component:
\* the cell still holds Ok(item 1).
C34_Witness ==
  /\ epoch = 1
  /\ sub[0].lastItem = Item(1)
  /\ Live(sub[1], mounted)
  /\ CompletedEmpty(1)
  /\ sub[1].check = "ran"
  /\ ret = ok(Item(1))

\* The activations whose handlers may write the cell.
Authorized == {k \in Epochs : sub[k].isCurrentSubscription}

\* C35: at most one activation is authorised to write the cell, and it is the
\* latest; a change of the dependency list marks the previous activation not
\* live and unsubscribes it in the step in which the next one subscribes; and
\* a handler or deferred check of an activation changes the cell only if that
\* activation's own liveness flag is set.
C35_OneAuthorizedEpoch ==
  /\ [](Cardinality(Authorized) <= 1 /\ Authorized \subseteq {epoch})
  /\ [][epoch' # epoch =>
          /\ ~sub'[epoch].isCurrentSubscription
          /\ sub[epoch].st = "subscribed" => (sub'[epoch].closed /\ sub'[epoch].unsubs = 1)
          /\ sub[epoch'].st = "idle"
          /\ sub'[epoch'].st \in {"subscribed", "threw"}]_vars
  /\ [][\A k \in Epochs :
          ((PushOf(k) \/ ObsDeferredCheckOf(k)) /\ ret' # ret)
            => sub[k].isCurrentSubscription]_vars

\* C35 witness: the third activation is the only live one and wrote item 2,
\* after the first two each delivered an item while they were live.
C35_Witness ==
  /\ epoch = 2
  /\ Authorized = {2}
  /\ sub[0].set
  /\ sub[1].set
  /\ sub[0].closed
  /\ sub[1].closed
  /\ ret = ok(Item(2))
  /\ sub[2].lastItem = Item(2)

\* The callback of execution i resumes after its await in this step.
Finishes(i) == inv[i].pc = "wrapped" /\ inv'[i].pc = "done"

\* C36: the slot is emptied only by the callback of the execution it holds,
\* as that callback resumes after the settlement; the resuming callback of an
\* execution empties the slot if the slot holds that execution and leaves it
\* as it is otherwise.
C36_OnlyHeldTaskClearsSlot ==
  /\ [][(cur # None /\ cur' = None) => Finishes(cur)]_vars
  /\ [][\A i \in CallIds :
          Finishes(i) => cur' = (IF cur = i THEN None ELSE cur)]_vars

\* C36 witness: the callback of execution 2 has resumed while the slot held
\* execution 1, which is still in flight, and the slot still holds it.
C36_Witness ==
  /\ inv[2].pc = "done"
  /\ inv[1].pc = "running"
  /\ cur = 1

\* C37: when an execution that the runOnStart effect started fails on the
\* mounted command, the result becomes Error(failure) in the step in which it
\* settles; and once the promise of that call of invoke has rejected, the
\* reaction of the subscription whose block awaited it has run on that
\* failure: it passed the failure to its subscriber, or dropped it because the
\* subscription had been unsubscribed.
C37_AutoFailureConsumedByBridge ==
  /\ [][\A i \in CallIds :
          (Settles(i) /\ inv[i].origin = "auto" /\ inv'[i].out.tag = "err" /\ mounted)
            => current' = err(Failure(i))]_vars
  /\ [](\A i \in CallIds :
          (inv[i].origin = "auto" /\ inv[i].ret.st = "rejected") =>
            /\ inv[i].bridge.pc = "finished"
            /\ inv[i].bridge.outcome = err(Failure(i))
            /\ inv[i].bridge.out = (IF inv[i].bridge.unsubscribed
                                    THEN <<>> ELSE <<<<"error", Failure(i)>>>>))

\* C37 witness: the execution the effect started on mount has failed; the
\* result is its failure and the subscription delivered the failure.
C37_Witness ==
  /\ mounted
  /\ inv[1].origin = "auto"
  /\ inv[1].ret = PromiseRejected(Failure(1))
  /\ current = err(Failure(1))
  /\ inv[1].bridge.out = <<<<"error", Failure(1)>>>>

\* C38: when the dependency list of a command changes while an execution is
\* in flight, the call of invoke that the runOnStart effect makes through the
\* new callback starts no execution and leaves the result as it is.
C38_SlotSurvivesDependencyChange ==
  [][(Rerender /\ deps' # deps /\ InFlight # {}) =>
       (nCalls' = nCalls /\ current' = current)]_vars

\* C39: on the mounted component the result is Pending only while the slot
\* is occupied: an execution that wrote Pending writes Ok or Error as it
\* settles, before its callback empties the slot, and no step that empties
\* the slot leaves the result Pending.
C39_PendingOnlyWhileSlotOccupied ==
  /\ []((mounted /\ current = pending) => cur # None)
  /\ [][(mounted /\ cur # None /\ cur' = None) => current' # pending]_vars
  /\ [][\A i \in CallIds :
          (Settles(i) /\ mounted) => current' \in Outcomes(i)]_vars

\* C39 witness: two invocations ran one after the other on the mounted
\* command; the second is in flight, the result is Pending and the slot holds
\* it.
C39_Witness ==
  /\ mounted
  /\ inv[1].pc = "done"
  /\ inv[2].pc = "running"
  /\ cur = 2
  /\ current = pending

\* C40: the slot is occupied whenever code of the wrapped operation runs, its
\* synchronous portion included, so that a call of invoke made from inside
\* the operation starts no execution.
C40_ReentrantInvokeIsDeduplicated ==
  \A i \in CallIds : inv[i].origin # "reentrant"

====
